---- MODULE Spec2Model ----
(***************************************************************************)
(* Whole-History Rating (kongyutay/whr): the registry WholeHistoryRating,  *)
(* Player, PlayerDay and Game, modelled as a state machine.                *)
(*                                                                         *)
(* The program computes with IEEE-754 doubles.  The model keeps the shape  *)
(* of that arithmetic (a signed mantissa and a binary exponent, rounding   *)
(* after every operation, overflow to +-Infinity, underflow to 0, NaN) with *)
(* a mantissa of 26 bits instead of 53, so that every product fits a       *)
(* 32-bit integer.  The exponent range is the range of a double, so        *)
(* Math.exp and Math.pow overflow and underflow where they do in the       *)
(* program.                                                                *)
(***************************************************************************)
EXTENDS Integers, Sequences, FiniteSets, TLC

(***************************************************************************)
(* number: a value <<m, e>> stands for m * 2^e, with |m| in 2^25 .. 2^26-1 *)
(* for a finite value that is not 0.                                       *)
(***************************************************************************)
Half == 2^13
Lo == 2^25
Hi == 2^26
ExpMax == 1024 - 26
ExpMin == 0 - 1074 - 25
ExpSpecial == 2^14

Zero == <<0, 0>>
NaN == <<0, ExpSpecial>>
PosInf == <<1, ExpSpecial>>
NegInf == <<0 - 1, ExpSpecial>>
One == <<Lo, 0 - 25>>

IsNaN(x) == x = NaN
IsInf(x) == x = PosInf \/ x = NegInf
IsFinite(x) == x[2] # ExpSpecial
IsZero(x) == x = Zero

\* an array whose elements are computed once, when it is built
Array(f) == f \o <<>>

IAbs(n) == IF n < 0 THEN 0 - n ELSE n
ISgn(n) == IF n < 0 THEN 0 - 1 ELSE IF n > 0 THEN 1 ELSE 0

RECURSIVE BitLen(_)
BitLen(a) == IF a < 2 THEN a ELSE 1 + BitLen(a \div 2)

\* sg * mm * 2^ee within the range of a double: overflow to +-Infinity, underflow to 0
Ranged(sg, mm, ee) ==
    IF ee > ExpMax THEN <<sg, ExpSpecial>>
    ELSE IF ee < ExpMin THEN Zero
    ELSE <<sg * mm, ee>>

\* a mantissa that rounding carried to 2^26 is 2^25 again, one exponent higher
Carried(sg, q, ee) ==
    Ranged(sg, IF q = Hi THEN Lo ELSE q, IF q = Hi THEN ee + 1 ELSE ee)

\* m * 2^e with s bits too many (too few when s < 0): round to nearest
Rounded(m, e, s) ==
    Carried(ISgn(m),
            IF s > 0 THEN (IAbs(m) \div (2^(s - 1)) + 1) \div 2 ELSE IAbs(m) * 2^(0 - s),
            e + s)

\* the number nearest to m * 2^e
Norm(m, e) == IF m = 0 THEN Zero ELSE Rounded(m, e, BitLen(IAbs(m)) - 26)

FromInt(n) == Norm(n, 0)

FNeg(x) == IF IsNaN(x) THEN NaN ELSE <<0 - x[1], x[2]>>
FAbs(x) == IF IsNaN(x) THEN NaN ELSE <<IAbs(x[1]), x[2]>>

\* big + sml, the exponent of big larger by d: sml keeps four guard bits
Aligned(big, sml, d) ==
    IF d > 30 THEN big
    ELSE Norm(IF d <= 4 THEN big[1] * 2^d + sml[1]
              ELSE big[1] * 16 + ISgn(sml[1]) * (IAbs(sml[1]) \div 2^(d - 4)),
              IF d <= 4 THEN sml[2] ELSE big[2] - 4)

\* x + y
FAdd(x, y) ==
    IF IsNaN(x) \/ IsNaN(y) THEN NaN
    ELSE IF IsInf(x) THEN (IF IsInf(y) /\ y # x THEN NaN ELSE x)
    ELSE IF IsInf(y) THEN y
    ELSE IF IsZero(x) THEN y
    ELSE IF IsZero(y) THEN x
    ELSE Aligned(IF x[2] >= y[2] THEN x ELSE y,
                 IF x[2] >= y[2] THEN y ELSE x,
                 IAbs(x[2] - y[2]))

\* x - y
FSub(x, y) == FAdd(x, FNeg(y))

\* (a * b) \div 2^sh for 0 <= a < 2^27, 0 <= b < 2^26 and sh in 13..26, by halves
MulShift(a, b, sh) ==
    ((a \div Half) * (b \div Half)) * 2^(26 - sh)
    + ((a \div Half) * (b % Half) + (a % Half) * (b \div Half)
       + ((a % Half) * (b % Half)) \div Half) \div 2^(sh - 13)

\* x * y
FMul(x, y) ==
    IF IsNaN(x) \/ IsNaN(y) THEN NaN
    ELSE IF IsInf(x) \/ IsInf(y)
         THEN (IF IsZero(x) \/ IsZero(y) THEN NaN
               ELSE <<ISgn(x[1]) * ISgn(y[1]), ExpSpecial>>)
    ELSE IF IsZero(x) \/ IsZero(y) THEN Zero
    ELSE Norm(ISgn(x[1]) * ISgn(y[1]) * MulShift(IAbs(x[1]), IAbs(y[1]), 24),
              x[2] + y[2] + 24)

\* (r * 2^(4 * k)) \div b added to q * 2^(4 * k), four bits at a time (r < b < 2^27)
RECURSIVE LongDiv(_, _, _, _)
LongDiv(q, r, b, k) ==
    IF k = 0 THEN q
    ELSE LongDiv(q * 16 + (r * 16) \div b, (r * 16) % b, b, k - 1)

\* x / y
FDiv(x, y) ==
    IF IsNaN(x) \/ IsNaN(y) THEN NaN
    ELSE IF IsInf(x) THEN (IF IsInf(y) THEN NaN
                           ELSE <<ISgn(x[1]) * (IF y[1] < 0 THEN 0 - 1 ELSE 1), ExpSpecial>>)
    ELSE IF IsInf(y) THEN Zero
    ELSE IF IsZero(y) THEN (IF IsZero(x) THEN NaN ELSE <<ISgn(x[1]), ExpSpecial>>)
    ELSE IF IsZero(x) THEN Zero
    ELSE Norm(ISgn(x[1]) * ISgn(y[1])
              * LongDiv(IAbs(x[1]) \div IAbs(y[1]), IAbs(x[1]) % IAbs(y[1]), IAbs(y[1]), 7),
              x[2] - y[2] - 28)

\* x < y, x > y as the program's comparisons: false when either side is NaN
FLt(x, y) ==
    /\ ~IsNaN(x)
    /\ ~IsNaN(y)
    /\ x # y
    /\ FSub(x, y)[1] < 0
FGt(x, y) == FLt(y, x)

\* ln 2 = Ln2Hi + Ln2Lo, Ln2Hi with 13 bits
Ln2Hi == <<5678 * Half, 0 - 26>>
Ln2Lo == <<35125456, 0 - 40>>
Ln2 == FAdd(Ln2Hi, Ln2Lo)

\* a finite x with 0 <= x < 1 as an integer of 26 fractional bits
Fix26(x) ==
    IF IsZero(x) \/ x[2] + 26 < 0 - 30 THEN 0
    ELSE x[1] \div 2^(0 - (x[2] + 26))

\* a finite x with |x| < 1024 as an integer of 20 fractional bits
Fix20(x) ==
    IF x[2] + 20 >= 0 THEN x[1] * 2^(x[2] + 20)
    ELSE IF x[2] + 20 < 0 - 30 THEN (IF x[1] < 0 THEN 0 - 1 ELSE 0)
    ELSE x[1] \div 2^(0 - (x[2] + 20))

\* k with 0 <= x - k * ln 2 < 1
ExpShift(x) == (Fix20(x) - 8) \div (IF x[1] < 0 THEN 726817 ELSE 726818)

\* x - k * ln 2
Reduced(x, kf) == FSub(FSub(x, FMul(kf, Ln2Hi)), FMul(kf, Ln2Lo))

\* acc + t + t * f / n + t * f^2 / (n * (n + 1)) + ..., 26 fractional bits
RECURSIVE ExpSeries(_, _, _, _)
ExpSeries(f, t, n, acc) ==
    IF t = 0 \/ n > 14 THEN acc + t
    ELSE ExpSeries(f, MulShift(t, f, 26) \div n, n + 1, acc + t)

\* 2^k * e^(x - k * ln 2)
ExpScaled(x, k) == Norm(ExpSeries(Fix26(Reduced(x, FromInt(k))), Hi, 1, 0), k - 26)

\* Math.exp
FExp(x) ==
    IF IsNaN(x) THEN NaN
    ELSE IF x = PosInf THEN PosInf
    ELSE IF x = NegInf THEN Zero
    ELSE IF IsZero(x) THEN One
    ELSE IF x[2] >= 0 - 15 THEN (IF x[1] > 0 THEN PosInf ELSE Zero)
    ELSE ExpScaled(x, ExpShift(x))

\* acc + t / n + t * z2 / (n + 2) + ..., 26 fractional bits
RECURSIVE AtanhSeries(_, _, _, _)
AtanhSeries(z2, t, n, acc) ==
    IF t = 0 \/ n > 25 THEN acc + t \div n
    ELSE AtanhSeries(z2, MulShift(t, z2, 26), n + 2, acc + t \div n)

\* atanh z for 0 <= z < 1/3
Atanh(z) == AtanhSeries(MulShift(z, z, 26), z, 1, 0)

\* ln((den + num) / (den - num)) = 2 atanh(num / den), 26 fractional bits
LnRatio(num, den) == 2 * Atanh(LongDiv(0, num, den, 7) \div 4)

\* Math.log
FLog(x) ==
    IF IsNaN(x) THEN NaN
    ELSE IF x = PosInf THEN PosInf
    ELSE IF IsZero(x) THEN NegInf
    ELSE IF x[1] < 0 THEN NaN
    ELSE IF x[2] = 0 - 26 THEN Norm(0 - LnRatio(Hi - x[1], Hi + x[1]), 0 - 26)
    ELSE FAdd(FMul(FromInt(x[2] + 25), Ln2), Norm(LnRatio(x[1] - Lo, x[1] + Lo), 0 - 26))

RECURSIVE ISqrtIn(_, _, _)
ISqrtIn(n, lo, hi) ==
    IF hi - lo <= 1 THEN lo
    ELSE IF ((lo + hi) \div 2) * ((lo + hi) \div 2) <= n
         THEN ISqrtIn(n, (lo + hi) \div 2, hi)
         ELSE ISqrtIn(n, lo, (lo + hi) \div 2)

\* the square root of m2 * 2^e2 (e2 even) to 14 bits, then one Newton step
SqrtSeed(m2, e2) == Norm(ISqrtIn(m2 * 4, 0, 2^15), (e2 - 2) \div 2)
SqrtStep(x, s0) == FMul(FAdd(s0, FDiv(x, s0)), <<Lo, 0 - 26>>)

\* Math.sqrt
FSqrt(x) ==
    IF IsNaN(x) THEN NaN
    ELSE IF IsZero(x) THEN Zero
    ELSE IF x[1] < 0 THEN NaN
    ELSE IF x = PosInf THEN PosInf
    ELSE SqrtStep(x, IF x[2] % 2 # 0 THEN SqrtSeed(x[1] * 2, x[2] - 1)
                     ELSE SqrtSeed(x[1], x[2]))

\* the literals of the program
F400 == FromInt(400)
Ln10 == FLog(FromInt(10))
\* Math.pow(10, x)
FPow10(x) == FExp(FMul(x, Ln10))
\* Math.pow(x, 2)
FSquare(x) == FMul(x, x)

(***************************************************************************)
(* The inputs of the calls.                                                *)
(***************************************************************************)
MaxGames == 2
MaxWins == 4
MaxDay == 2
MaxCalls == 2
MaxPasses == 2
MaxTimeGames == 3
MaxHalfDay == 6
MaxRuns == 3
MaxIterations == 3

Names == {"a", "b"}
Days == 1..MaxDay
Winners == {"W", "B", "D"}
\* handicaps in elo points, as the tests give them, and two that stress Math.pow
Handicaps == {0 - 4, 0, 1, 4}
BigHandicaps == {3200, 200000}
\* the ratings the tests set, one whose strength is finite while the sum of two
\* such strengths is not, and one whose strength overflows
Elos == {100, 200, 500, 600, 123280, 400000}

NoCache == <<"null">>

VARIABLES
    players,   \* WholeHistoryRating.players: the names, in insertion order
    days,      \* Player.days of every name: a sequence of PlayerDay
    games,     \* WholeHistoryRating.games
    call,      \* the last call and how it ended
    nCalls     \* the number of calls so far, createGame apart

vars == <<players, days, games, call, nCalls>>

(***************************************************************************)
(* PlayerDay.                                                              *)
(***************************************************************************)
\* new PlayerDay(player, day)
NewPlayerDay(day) ==
    [day |-> day, r |-> Zero, isFirstDay |-> FALSE,
     uncertainty |-> FSqrt(FromInt(5)),
     wonGames |-> <<>>, lostGames |-> <<>>,
     wonTerms |-> NoCache, lostTerms |-> NoCache]

\* get gamma, get elo
Gamma(pd) == FExp(pd.r)
Elo(pd) == FDiv(FMul(pd.r, F400), Ln10)
\* set gamma, set elo: the r they store
SetGamma(value) == FLog(value)
SetElo(value) == FDiv(FMul(value, Ln10), F400)

\* clearGameTermsCache
ClearGameTermsCache(pd) == [pd EXCEPT !.wonTerms = NoCache, !.lostTerms = NoCache]

\* PlayerDay.addGame, for the day of player p: gi is the game's place in games
\* a draw counted as a win of either side
IsWonOrDrawnBy(g, p) ==
    \/ g.winner = "D"
    \/ g.winner = "W" /\ g.white = p
    \/ g.winner = "B" /\ g.black = p
IsWonBy(g, p) ==
    \/ g.winner = "W" /\ g.white = p
    \/ g.winner = "B" /\ g.black = p
\* the same without the else branch: a game that p did not win is dropped
DayAddGameIfWon(pd, g, gi, p) ==
    IF IsWonBy(g, p) THEN [pd EXCEPT !.wonGames = Append(@, gi)] ELSE pd
DayAddGame(pd, g, gi, p) ==
    IF IsWonBy(g, p) THEN [pd EXCEPT !.wonGames = Append(@, gi)]
    ELSE [pd EXCEPT !.lostGames = Append(@, gi)]

(***************************************************************************)
(* Game.  wpd and bpd are places in the days of the white and of the black *)
(* player, 0 for null.                                                     *)
(***************************************************************************)
Returned(v) == [error |-> "", value |-> v]
Thrown(e) == [error |-> e, value |-> NaN]

\* opponentsAdjustedGamma(player), with a fixed handicap
BadGamma(rval) == IsZero(rval) \/ ~IsFinite(rval) \/ IsNaN(rval)
CheckedGamma(rval) ==
    IF BadGamma(rval) THEN Thrown("UnstableRatingException") ELSE Returned(rval)
\* the handicap added on either side, for the black player too
AdjustedEloUnsigned(dd, g, p) ==
    IF p = g.white THEN FAdd(Elo(dd[g.black][g.bpd]), FromInt(g.handicap))
    ELSE FAdd(Elo(dd[g.white][g.wpd]), FromInt(g.handicap))
AdjustedElo(dd, g, p) ==
    IF p = g.white THEN FAdd(Elo(dd[g.black][g.bpd]), FromInt(g.handicap))
    ELSE FSub(Elo(dd[g.white][g.wpd]), FromInt(g.handicap))
\* the opponent's gamma as it is, the handicap left out
OpponentsGamma(dd, g, p) ==
    IF p = g.white THEN CheckedGamma(Gamma(dd[g.black][g.bpd]))
    ELSE CheckedGamma(Gamma(dd[g.white][g.wpd]))
\* a missing rating point read as a player of gamma 1
AdjustedGammaOrOne(dd, g, p) ==
    IF (p = g.white /\ g.bpd = 0) \/ (p = g.black /\ g.wpd = 0) \/ p \notin {g.white, g.black}
    THEN Returned(One)
    ELSE CheckedGamma(FPow10(FDiv(AdjustedElo(dd, g, p), F400)))
OpponentsAdjustedGamma(dd, g, p) ==
    IF p = g.white /\ g.bpd = 0 THEN Thrown("Error")
    ELSE IF p # g.white /\ p = g.black /\ g.wpd = 0 THEN Thrown("Error")
    ELSE IF p # g.white /\ p # g.black THEN Thrown("Error")
    ELSE CheckedGamma(FPow10(FDiv(AdjustedElo(dd, g, p), F400)))

\* gamma / (gamma + opponentsAdjustedGamma), unless the latter threw
WinShare(gm, o) ==
    IF o.error # "" THEN o ELSE Returned(FDiv(gm, FAdd(gm, o.value)))

\* get whiteWinProbability, get blackWinProbability
WhiteWinProbability(dd, g) ==
    IF g.wpd = 0 THEN Thrown("Error")
    ELSE WinShare(Gamma(dd[g.white][g.wpd]), OpponentsAdjustedGamma(dd, g, g.white))
BlackWinProbability(dd, g) ==
    IF g.bpd = 0 THEN Thrown("Error")
    ELSE WinShare(Gamma(dd[g.black][g.bpd]), OpponentsAdjustedGamma(dd, g, g.black))

(***************************************************************************)
(* PlayerDay: the likelihood terms {a, b, c, d} and their cache.           *)
(***************************************************************************)
WonTerm(d) == <<One, Zero, One, d>>
LostTerm(d) == <<Zero, d, One, d>>

IMin(S) == CHOOSE x \in S : \A y \in S : x <= y

\* the terms of the games whose opponentsAdjustedGamma are res: the first throw
\* leaves the cache null
TermsFrom(res, won, first) ==
    IF \E k \in 1..Len(res) : res[k].error # ""
    THEN [error |-> res[IMin({k \in 1..Len(res) : res[k].error # ""})].error,
          terms |-> NoCache]
    ELSE [error |-> "",
          terms |-> Array([k \in 1..Len(res) |->
                              IF won THEN WonTerm(res[k].value)
                              ELSE LostTerm(res[k].value)])
                    \o (IF ~first THEN <<>>
                        ELSE IF won THEN <<WonTerm(One)>> ELSE <<LostTerm(One)>>)]

\* the body of get wonGameTerms / get lostGameTerms when the cache is null
BuildTerms(dd, p, gs, won, first) ==
    TermsFrom(Array([k \in 1..Len(gs) |-> OpponentsAdjustedGamma(dd, games[gs[k]], p)]),
              won, first)

\* get wonGameTerms (won) / get lostGameTerms of the day pd of player p
CachedTerms(dd, p, pd, won) ==
    IF (IF won THEN pd.wonTerms ELSE pd.lostTerms) # NoCache
    THEN [error |-> "", terms |-> IF won THEN pd.wonTerms ELSE pd.lostTerms]
    ELSE BuildTerms(dd, p, IF won THEN pd.wonGames ELSE pd.lostGames, won, pd.isFirstDay)

\* the getters as the derivatives call them, won before lost, day after day:
\* a cache that is set is returned as it is, a throw leaves the later caches alone
RECURSIVE GameTerms(_, _, _, _)
AfterLostTerms(dd, p, ds, i, l) ==
    IF l.error # "" THEN [error |-> l.error, ds |-> ds]
    ELSE GameTerms(dd, p, [ds EXCEPT ![i].lostTerms = l.terms], i + 1)
AfterWonTerms(dd, p, ds, i, w) ==
    IF w.error # "" THEN [error |-> w.error, ds |-> ds]
    ELSE AfterLostTerms(dd, p, [ds EXCEPT ![i].wonTerms = w.terms], i,
                        CachedTerms(dd, p, ds[i], FALSE))
GameTerms(dd, p, ds, i) ==
    IF i > Len(ds) THEN [error |-> "", ds |-> ds]
    ELSE AfterWonTerms(dd, p, ds, i, CachedTerms(dd, p, ds[i], TRUE))

RECURSIVE FSum(_, _, _)
FSum(f, i, acc) == IF i > Len(f) THEN acc ELSE FSum(f, i + 1, FAdd(acc, f[i]))

AllTerms(pd) == pd.wonTerms \o pd.lostTerms

\* get logLikelihoodDerivative
DerivativeFrom(gm, ts, won) ==
    FSub(FromInt(won),
         FMul(gm, FSum(Array([k \in 1..Len(ts) |->
                                 FDiv(ts[k][3], FAdd(FMul(ts[k][3], gm), ts[k][4]))]),
                       1, Zero)))
LogLikelihoodDerivative(pd) == DerivativeFrom(Gamma(pd), AllTerms(pd), Len(pd.wonTerms))

\* get logLikelihoodSecondDerivative
SecondDerivativeFrom(gm, ts) ==
    FMul(FNeg(gm),
         FSum(Array([k \in 1..Len(ts) |->
                        FDiv(FMul(ts[k][3], ts[k][4]),
                             FSquare(FAdd(FMul(ts[k][3], gm), ts[k][4])))]),
              1, Zero))
LogLikelihoodSecondDerivative(pd) == SecondDerivativeFrom(Gamma(pd), AllTerms(pd))

\* get logLikelihood of a day whose caches are set: the won terms, then the lost
RECURSIVE WonTally(_, _, _, _)
WonTally(ts, gm, k, tally) ==
    IF k > Len(ts) THEN tally
    ELSE WonTally(ts, gm, k + 1,
                  FSub(FAdd(tally, FLog(FMul(ts[k][1], gm))),
                       FLog(FAdd(FMul(ts[k][3], gm), ts[k][4]))))
RECURSIVE LostTally(_, _, _, _)
LostTally(ts, gm, k, tally) ==
    IF k > Len(ts) THEN tally
    ELSE LostTally(ts, gm, k + 1,
                   FSub(FAdd(tally, FLog(ts[k][2])),
                        FLog(FAdd(FMul(ts[k][3], gm), ts[k][4]))))
DayLogLikelihoodAt(pd, gm) ==
    LostTally(pd.lostTerms, gm, 1, WonTally(pd.wonTerms, gm, 1, Zero))
DayLogLikelihood(pd) == DayLogLikelihoodAt(pd, Gamma(pd))

\* updateBy1DNewtonsMethod: the r it leaves
SkipBelow == FDiv(One, FMul(FromInt(100000), FromInt(100000)))
\* the step taken whatever the second derivative
StepAlways(r, dlogp, d2logp) == FSub(r, FDiv(dlogp, d2logp))
Step1D(r, dlogp, d2logp) ==
    IF FLt(FAbs(d2logp), SkipBelow) THEN r ELSE FSub(r, FDiv(dlogp, d2logp))
UpdateBy1DNewtonsMethod(pd) ==
    Step1D(pd.r, LogLikelihoodDerivative(pd), LogLikelihoodSecondDerivative(pd))

(***************************************************************************)
(* Player.                                                                 *)
(***************************************************************************)
W2Elo == 300
UnstableR == 650

\* constructor: this.w2, from elo^2 to r^2
W2 == FSquare(FDiv(FMul(FSqrt(FromInt(W2Elo)), Ln10), F400))

\* computeSigma2
ComputeSigma2(ds) ==
    Array([i \in 1..(Len(ds) - 1) |->
              FMul(FromInt(IAbs(ds[i + 1].day - ds[i].day)), W2)])

Regular == FDiv(One, FromInt(1000))
OneHalf == FDiv(One, FromInt(2))
TwoPi == FMul(FromInt(2), FDiv(FromInt(314159265), FromInt(100000000)))

\* let prior = 0; if (i < n - 1) prior += ahead; if (i > 0) prior += behind
Prior(i, n, ahead, behind) ==
    IF i < n
    THEN (IF i > 1 THEN FAdd(FAdd(Zero, ahead), behind) ELSE FAdd(Zero, ahead))
    ELSE (IF i > 1 THEN FAdd(Zero, behind) ELSE Zero)

\* hessian(days, sigma2): the n x n matrix
HessianDiagonal(ds, sigma2, row) ==
    FSub(FAdd(LogLikelihoodSecondDerivative(ds[row]),
              Prior(row, Len(ds),
                    IF row < Len(ds) THEN FDiv(FNeg(One), sigma2[row]) ELSE Zero,
                    IF row > 1 THEN FDiv(FNeg(One), sigma2[row - 1]) ELSE Zero)),
         Regular)
Hessian(ds, sigma2) ==
    Array([row \in 1..Len(ds) |-> Array([col \in 1..Len(ds) |->
        IF row = col THEN HessianDiagonal(ds, sigma2, row)
        ELSE IF row = col - 1 THEN FDiv(One, sigma2[row])
        ELSE IF row = col + 1 THEN FDiv(One, sigma2[col])
        ELSE Zero])])

\* gradient(r, days, sigma2)
Gradient(r, ds, sigma2) ==
    Array([idx \in 1..Len(ds) |->
        FAdd(LogLikelihoodDerivative(ds[idx]),
             Prior(idx, Len(ds),
                   IF idx < Len(ds)
                   THEN FDiv(FNeg(FSub(r[idx], r[idx + 1])), sigma2[idx]) ELSE Zero,
                   IF idx > 1
                   THEN FDiv(FNeg(FSub(r[idx], r[idx - 1])), sigma2[idx - 1]) ELSE Zero))])

\* Player.logLikelihood on days whose caches are set: the log density of the
\* Wiener steps to the neighbours, and the sum, a day with a non-finite
\* likelihood or prior left out
PriorDensity(rd, s) ==
    FSub(FDiv(FMul(FNeg(OneHalf), FMul(rd, rd)), s),
         FMul(OneHalf, FLog(FMul(TwoPi, s))))
LogPrior(ds, sigma2, i) ==
    Prior(i, Len(ds),
          IF i < Len(ds) THEN PriorDensity(FSub(ds[i].r, ds[i + 1].r), sigma2[i]) ELSE Zero,
          IF i > 1 THEN PriorDensity(FSub(ds[i].r, ds[i - 1].r), sigma2[i - 1]) ELSE Zero)
Summed(sum, dayLikelihood, prior) ==
    IF ~IsFinite(dayLikelihood) \/ ~IsFinite(prior) THEN sum
    ELSE IF prior = Zero THEN FAdd(sum, dayLikelihood)
    ELSE FAdd(sum, FAdd(dayLikelihood, prior))
RECURSIVE DaysSummed(_, _, _, _)
DaysSummed(ds, sigma2, i, sum) ==
    IF i > Len(ds) THEN sum
    ELSE DaysSummed(ds, sigma2, i + 1,
                    Summed(sum, DayLogLikelihood(ds[i]), LogPrior(ds, sigma2, i)))
PlayerLogLikelihood(ds) == DaysSummed(ds, ComputeSigma2(ds), 1, Zero)

\* luDecompositionTridiagonal(h, n): {a, d, b}; an entry never written is NaN
RECURSIVE LuFrom(_, _, _, _)
LuRow(h, n, i, acc, ai) ==
    LuFrom(h, n, i + 1,
           [a |-> Append(acc.a, ai),
            d |-> Append(acc.d, FSub(h[i][i], FMul(ai, acc.b[i - 1]))),
            b |-> Append(acc.b, IF i < n THEN h[i][i + 1] ELSE NaN)])
LuFrom(h, n, i, acc) ==
    IF i > n THEN acc ELSE LuRow(h, n, i, acc, FDiv(h[i][i - 1], acc.d[i - 1]))
LuDecompositionTridiagonal(h, n) ==
    LuFrom(h, n, 2, [a |-> <<NaN>>, d |-> <<h[1][1]>>,
                     b |-> <<IF n > 1 THEN h[1][2] ELSE NaN>>])

\* forward substitution L y = g
RECURSIVE Forward(_, _, _, _)
Forward(g, a, i, y) ==
    IF i > Len(g) THEN y
    ELSE Forward(g, a, i + 1, Append(y, FSub(g[i], FMul(a[i], y[i - 1]))))

\* back substitution U x = y: x[i..n] is built from the end
RECURSIVE Backward(_, _, _, _, _)
Backward(y, d, b, i, x) ==
    IF i < 1 THEN x
    ELSE Backward(y, d, b, i - 1,
                  <<FDiv(FSub(y[i], FMul(b[i], x[1])), d[i])>> \o x)
\* the last entry left undivided
BackwardUnscaled(y, lu) == Backward(y, lu.d, lu.b, Len(y) - 1, <<y[Len(y)]>>)
BackwardFrom(y, lu) ==
    Backward(y, lu.d, lu.b, Len(y) - 1, <<FDiv(y[Len(y)], lu.d[Len(y)])>>)

\* updateByNDimNewton, the caches of ds being set: newR = r - x, H x = g
Stepped(r, x) == Array([i \in 1..Len(r) |-> FSub(r[i], x[i])])
Solved(r, g, lu) == Stepped(r, BackwardFrom(Forward(g, lu.a, 2, <<g[1]>>), lu))
NewRFrom(ds, r, sigma2) ==
    Solved(r, Gradient(r, ds, sigma2),
           LuDecompositionTridiagonal(Hessian(ds, sigma2), Len(ds)))
NewR(ds) == NewRFrom(ds, Array([i \in 1..Len(ds) |-> ds[i].r]), ComputeSigma2(ds))

\* the stability check
Unstable(newR) == \E i \in 1..Len(newR) : FGt(newR[i], FromInt(UnstableR))

\* the ratings written before the check
WrittenThenChecked(ds, newR) ==
    [error |-> IF Unstable(newR) THEN "UnstableRatingException" ELSE "",
     ds |-> Array([i \in 1..Len(ds) |-> [ds[i] EXCEPT !.r = newR[i]]])]

\* updateByNDimNewton: the check, then the ratings written
Committed(ds, newR) ==
    IF Unstable(newR) THEN [error |-> "UnstableRatingException", ds |-> ds]
    ELSE [error |-> "", ds |-> Array([i \in 1..Len(ds) |-> [ds[i] EXCEPT !.r = newR[i]]])]
UpdateByNDimNewton(ds) == Committed(ds, NewR(ds))

\* runOneNewtonIteration: the days it leaves, and the error it throws ("" if none)
Updated(t) ==
    IF t.error # "" THEN t
    ELSE IF Len(t.ds) = 1
    THEN [error |-> "", ds |-> <<[t.ds[1] EXCEPT !.r = UpdateBy1DNewtonsMethod(t.ds[1])]>>]
    ELSE UpdateByNDimNewton(t.ds)
\* the caches kept from earlier calls
NotCleared(ds) == ds
Cleared(ds) == Array([i \in 1..Len(ds) |-> ClearGameTermsCache(ds[i])])
RunOneNewtonIterationOf(dd, p) ==
    IF Len(dd[p]) = 0 THEN [error |-> "", ds |-> dd[p]]
    ELSE Updated(GameTerms(dd, p, Cleared(dd[p]), 1))

\* covariance(): dp from the last row up, then v, then the matrix, of which only
\* the diagonal and the super-diagonal are written
RECURSIVE DpFrom(_, _, _)
DpFrom(h, i, dp) ==
    IF i < 1 THEN dp
    ELSE DpFrom(h, i - 1,
                <<FSub(h[i][i], FMul(FDiv(h[i][i + 1], dp[1]), h[i + 1][i]))>> \o dp)
CovarianceV(h, n, lu, dp) ==
    Array([i \in 1..n |->
        IF i = n THEN FDiv(FNeg(One), lu.d[n])
        ELSE FDiv(dp[i + 1],
                  FSub(FMul(lu.b[i], h[i + 1][i]), FMul(lu.d[i], dp[i + 1])))])
CovarianceMatrix(n, a, v) ==
    Array([row \in 1..n |-> Array([col \in 1..n |->
        IF row = col THEN v[row]
        ELSE IF row = col - 1 THEN FMul(FNeg(a[col]), v[col])
        ELSE Zero])])
CovarianceFrom(h, n, lu) ==
    CovarianceMatrix(n, lu.a, CovarianceV(h, n, lu, DpFrom(h, n - 1, <<h[n][n]>>)))
CovarianceOf(h, n) == CovarianceFrom(h, n, LuDecompositionTridiagonal(h, n))
Covariance(ds) == CovarianceOf(Hessian(ds, ComputeSigma2(ds)), Len(ds))

\* the square roots written to r, not to uncertainty
UncertainRating(ds, c) ==
    Array([i \in 1..Len(ds) |-> [ds[i] EXCEPT !.r = FSqrt(FAbs(c[i][i]))]])

\* updateUncertainty, the caches of ds being set
Uncertain(ds, c) ==
    Array([i \in 1..Len(ds) |-> [ds[i] EXCEPT !.uncertainty = FSqrt(FAbs(c[i][i]))]])
WithUncertainty(ds) == Uncertain(ds, Covariance(ds))

\* Player.addGame: the days of player p with game g (the gi-th) added
\* a new day for every game, the last day not looked at
AlwaysNewDay(ds, day) == TRUE
NeedsNewDay(ds, day) == Len(ds) = 0 \/ ds[Len(ds)].day # day
\* every new day started at r = 0
NewDayAtZero(ds, day) ==
    [NewPlayerDay(day) EXCEPT !.isFirstDay = (Len(ds) = 0), !.r = SetGamma(One)]
NewDayAfter(ds, day) ==
    IF Len(ds) = 0
    THEN [NewPlayerDay(day) EXCEPT !.isFirstDay = TRUE, !.r = SetGamma(One)]
    ELSE [NewPlayerDay(day) EXCEPT !.r = SetGamma(Gamma(ds[Len(ds)]))]
PlayerAddGame(ds, g, gi, p) ==
    IF NeedsNewDay(ds, g.day)
    THEN Append(ds, DayAddGame(NewDayAfter(ds, g.day), g, gi, p))
    ELSE [ds EXCEPT ![Len(ds)] = DayAddGame(@, g, gi, p)]


\* Math.round: the nearest integer, a half rounded up
FRound(x) ==
    IF ~IsFinite(x) \/ IsZero(x) \/ x[2] >= 0 THEN x
    ELSE IF x[2] < 0 - 27 THEN Zero
    ELSE FromInt((x[1] + 2^(0 - x[2] - 1)) \div 2^(0 - x[2]))

\* getRatingHistory: [day, Math.round(elo), Math.round(uncertainty * 100)]
GetRatingHistory(ds) ==
    Array([i \in 1..Len(ds) |->
              <<ds[i].day, FRound(Elo(ds[i])), FRound(FMul(ds[i].uncertainty, FromInt(100)))>>])

\* interpolateRating(timePoint), getRatingAtTime(timePoint): timePoint as a number
\* of half days
HalfDays == 0..MaxHalfDay
TimeOf(h) == FDiv(FromInt(h), FromInt(2))

\* outside the range, or a single day: the day's elo, the variance grown by
\* timeDiff * w2
Extrapolated(pd, timeDiff) ==
    [elo |-> Elo(pd),
     uncertainty |-> FSqrt(FAdd(FMul(pd.uncertainty, pd.uncertainty), FMul(timeDiff, W2)))]

\* the first i with days[i].day <= timePoint <= days[i + 1].day, 0 for -1
Surrounding(ds, t) ==
    IF \E i \in 1..(Len(ds) - 1) :
           ~FGt(FromInt(ds[i].day), t) /\ ~FLt(FromInt(ds[i + 1].day), t)
    THEN IMin({i \in 1..(Len(ds) - 1) :
                  ~FGt(FromInt(ds[i].day), t) /\ ~FLt(FromInt(ds[i + 1].day), t)})
    ELSE 0

\* Math.max(0, x)
NonNegative(x) == IF FLt(x, Zero) THEN Zero ELSE x

\* between t1 and t2: after = t2.day - timePoint, before = timePoint - t1.day,
\* span = t2.day - t1.day; sigma12 is 0
Interpolated(t1, t2, after, before, span) ==
    [elo |-> FDiv(FMul(FDiv(FAdd(FMul(t1.r, after), FMul(t2.r, before)), span), F400), Ln10),
     uncertainty |->
        FSqrt(NonNegative(FAdd(
            FMul(FDiv(FMul(after, before), span), W2),
            FDiv(FAdd(FAdd(FMul(FSquare(after), FMul(t1.uncertainty, t1.uncertainty)),
                           FMul(FMul(FMul(FromInt(2), after), before), Zero)),
                      FMul(FSquare(before), FMul(t2.uncertainty, t2.uncertainty))),
                 FSquare(span)))))]

InterpolatedIn(ds, t, i) ==
    IF i = 0
    THEN (IF FLt(t, FromInt(ds[1].day))
          THEN Extrapolated(ds[1], FSub(FromInt(ds[1].day), t))
          ELSE Extrapolated(ds[Len(ds)], FSub(t, FromInt(ds[Len(ds)].day))))
    ELSE Interpolated(ds[i], ds[i + 1], FSub(FromInt(ds[i + 1].day), t),
                      FSub(t, FromInt(ds[i].day)),
                      FromInt(ds[i + 1].day - ds[i].day))

InterpolateRating(ds, t) ==
    IF Len(ds) = 0 THEN [elo |-> Zero, uncertainty |-> FSqrt(FromInt(5))]
    ELSE IF Len(ds) = 1 THEN Extrapolated(ds[1], FAbs(FSub(t, FromInt(ds[1].day))))
    ELSE InterpolatedIn(ds, t, Surrounding(ds, t))

\* getRatingAtTime: days.find(d => d.day === timePoint), else interpolateRating
GetRatingAtTime(ds, t) ==
    IF \E i \in 1..Len(ds) : FromInt(ds[i].day) = t
    THEN [elo |-> Elo(ds[IMin({i \in 1..Len(ds) : FromInt(ds[i].day) = t})]),
          uncertainty |-> ds[IMin({i \in 1..Len(ds) : FromInt(ds[i].day) = t})].uncertainty]
    ELSE InterpolateRating(ds, t)
(***************************************************************************)
(* WholeHistoryRating: the calls.                                          *)
(***************************************************************************)
Registered(name) == \E i \in 1..Len(players) : players[i] = name

\* a map that never takes a new player
NeverRegistered(ps, name) == ps
\* a new Player made at every call
AlwaysAppended(ps, name) == Append(ps, name)
\* playerByName: the map after the call
PlayerByName(ps, name) ==
    IF \E i \in 1..Len(ps) : ps[i] = name THEN ps ELSE Append(ps, name)

\* how a call ended: its name, its arguments, the error thrown, the value returned
Ended(op, who, against, error, value) ==
    [op |-> op, who |-> who, against |-> against, error |-> error, value |-> value]

Init ==
    /\ players = <<>>
    /\ days = [n \in Names |-> <<>>]
    /\ games = <<>>
    /\ call = Ended("new", "", "", "", <<>>)
    /\ nCalls = 0

\* setupGame: the check, then white before black
\* the check left out
NeverSelfPlayed(black, white) == FALSE
SelfPlayed(black, white) == black = white
SetupGame(black, white) ==
    IF SelfPlayed(black, white)
    THEN /\ call' = Ended("setupGame", black, white, "Invalid game", <<>>)
         /\ UNCHANGED <<players, days, games>>
    ELSE /\ players' = PlayerByName(PlayerByName(players, white), black)
         /\ call' = Ended("setupGame", black, white, "", <<>>)
         /\ UNCHANGED <<days, games>>

\* WholeHistoryRating.addGame: white's addGame, then black's, then games.push
AddGame(g, wds, bds) ==
    /\ days' = [days EXCEPT ![g.white] = wds, ![g.black] = bds]
    /\ games' = Append(games, [g EXCEPT !.wpd = Len(wds), !.bpd = Len(bds)])

\* new Game(blackPlayer, whitePlayer, winner, timeStep, handicap)
NewGame(black, white, winner, timeStep, handicap) ==
    [black |-> black, white |-> white, winner |-> winner,
     day |-> timeStep, handicap |-> handicap, wpd |-> 0, bpd |-> 0]

\* createGame: setupGame, then addGame
Created(g) ==
    /\ players' = PlayerByName(PlayerByName(players, g.white), g.black)
    /\ AddGame(g, PlayerAddGame(days[g.white], g, Len(games) + 1, g.white),
               PlayerAddGame(days[g.black], g, Len(games) + 1, g.black))
    /\ call' = Ended("createGame", g.black, g.white, "", <<>>)
CreateGame(black, white, winner, timeStep, handicap) ==
    IF SelfPlayed(black, white)
    THEN /\ call' = Ended("createGame", black, white, "Invalid game", <<>>)
         /\ UNCHANGED <<players, days, games>>
    ELSE Created(NewGame(black, white, winner, timeStep, handicap))

\* setupGames(gameResults): setupGameFromResult, that is createGame, of each
\* result in turn; a throw ends the map and keeps the games made before it.
\* st holds the players, days and games so far, n the games made
CreatedWith(st, g, wds, bds) ==
    [players |-> PlayerByName(PlayerByName(st.players, g.white), g.black),
     days |-> [st.days EXCEPT ![g.white] = wds, ![g.black] = bds],
     games |-> Append(st.games, [g EXCEPT !.wpd = Len(wds), !.bpd = Len(bds)])]
CreatedIn(st, g) ==
    CreatedWith(st, g, PlayerAddGame(st.days[g.white], g, Len(st.games) + 1, g.white),
                PlayerAddGame(st.days[g.black], g, Len(st.games) + 1, g.black))
RECURSIVE SetupGamesFrom(_, _, _)
SetupGamesFrom(results, k, st) ==
    IF k > Len(results) THEN [error |-> "", st |-> st]
    ELSE IF SelfPlayed(results[k].black, results[k].white)
    THEN [error |-> "Invalid game", st |-> st]
    ELSE SetupGamesFrom(results, k + 1, CreatedIn(st, results[k]))
SetupGamesEnded(results, res) ==
    /\ players' = res.st.players
    /\ days' = res.st.days
    /\ games' = res.st.games
    /\ call' = Ended("setupGames", "", "", res.error, <<results>>)
SetupGames(results) ==
    SetupGamesEnded(results,
                    SetupGamesFrom(results, 1, [players |-> players, days |-> days, games |-> games]))

\* game.bpd.elo = value, game.wpd.elo = value: the setter on the i-th day of p
SetEloOf(p, i, value) ==
    /\ i \in 1..Len(days[p])
    /\ days' = [days EXCEPT ![p][i].r = SetElo(FromInt(value))]
    /\ call' = Ended("setElo", p, "", "", <<>>)
    /\ UNCHANGED <<players, games>>

\* game.whiteWinProbability, then game.blackWinProbability, of the gi-th game
BothRead(gi, w, b) ==
    /\ call' = Ended("winProbabilities", "", "",
                     IF w.error # "" THEN w.error ELSE b.error,
                     <<gi, w.value, b.value>>)
    /\ UNCHANGED <<players, days, games>>
WinProbabilities(gi) ==
    /\ gi \in 1..Len(games)
    /\ BothRead(gi, WhiteWinProbability(days, games[gi]), BlackWinProbability(days, games[gi]))

\* a Game object as new Game(...) or setupGame leaves it, or as Player.addGame
\* of one side or both has attached it (wpd, bpd: 0 is null), read through
\* whiteWinProbability, blackWinProbability and opponentsAdjustedGamma(p)
GameRead(g, p, w, b, o) ==
    /\ call' = Ended("readGame", p, "", o.error, <<g, w, b, o>>)
    /\ UNCHANGED <<players, days, games>>
ReadGameObject(g, p) ==
    /\ g.wpd \in 0..Len(days[g.white])
    /\ g.bpd \in 0..Len(days[g.black])
    /\ GameRead(g, p, WhiteWinProbability(days, g), BlackWinProbability(days, g),
                OpponentsAdjustedGamma(days, g, p))

\* Player.runOneNewtonIteration on a registered player
NewtonEnded(p, res) ==
    /\ days' = [days EXCEPT ![p] = res.ds]
    /\ call' = Ended("runOneNewtonIteration", p, "", res.error, <<>>)
    /\ UNCHANGED <<players, games>>
RunOneNewtonIteration(p) ==
    /\ Registered(p)
    /\ NewtonEnded(p, RunOneNewtonIterationOf(days, p))

\* Player.updateUncertainty on a registered player
UncertaintyFrom(t) ==
    IF t.error # "" THEN t ELSE [error |-> "", ds |-> WithUncertainty(t.ds)]
UpdateUncertaintyOf(dd, p) ==
    IF Len(dd[p]) = 0 THEN [error |-> "", ds |-> dd[p]]
    ELSE UncertaintyFrom(GameTerms(dd, p, dd[p], 1))
UncertaintyEnded(p, res) ==
    /\ days' = [days EXCEPT ![p] = res.ds]
    /\ call' = Ended("updateUncertainty", p, "", res.error, <<>>)
    /\ UNCHANGED <<players, games>>
UpdateUncertainty(p) ==
    /\ Registered(p)
    /\ UncertaintyEnded(p, UpdateUncertaintyOf(days, p))

\* get logLikelihood: the players in map order, each day's terms through the cache
RECURSIVE LogLikelihoodFrom(_, _)
LogLikelihoodAfter(k, dd, p, t) ==
    IF t.error # "" THEN [error |-> t.error, days |-> [dd EXCEPT ![p] = t.ds]]
    ELSE LogLikelihoodFrom(k + 1, [dd EXCEPT ![p] = t.ds])
LogLikelihoodFrom(k, dd) ==
    IF k > Len(players) THEN [error |-> "", days |-> dd]
    ELSE LogLikelihoodAfter(k, dd, players[k], GameTerms(dd, players[k], dd[players[k]], 1))
\* the score: the players that have a day, in map order
RECURSIVE ScoreFrom(_, _, _)
ScoreFrom(dd, k, score) ==
    IF k > Len(players) THEN score
    ELSE ScoreFrom(dd, k + 1,
                   IF Len(dd[players[k]]) > 0
                   THEN FAdd(score, PlayerLogLikelihood(dd[players[k]]))
                   ELSE score)
LogLikelihoodOf(res) ==
    IF res.error # "" THEN [error |-> res.error, days |-> res.days, value |-> <<>>]
    ELSE [error |-> "", days |-> res.days, value |-> ScoreFrom(res.days, 1, Zero)]
LogLikelihoodEnded(res) ==
    /\ days' = res.days
    /\ call' = Ended("logLikelihood", "", "", res.error, res.value)
    /\ UNCHANGED <<players, games>>
LogLikelihood == LogLikelihoodEnded(LogLikelihoodOf(LogLikelihoodFrom(1, days)))

\* get logLikelihood of a registered Player
PlayerLogLikelihoodOf(t) ==
    IF t.error # "" THEN [error |-> t.error, ds |-> t.ds, value |-> <<>>]
    ELSE [error |-> "", ds |-> t.ds, value |-> PlayerLogLikelihood(t.ds)]
PlayerLogLikelihoodEnded(p, res) ==
    /\ days' = [days EXCEPT ![p] = res.ds]
    /\ call' = Ended("Player.logLikelihood", p, "", res.error, res.value)
    /\ UNCHANGED <<players, games>>
GetPlayerLogLikelihood(p) ==
    /\ Registered(p)
    /\ PlayerLogLikelihoodEnded(p, PlayerLogLikelihoodOf(GameTerms(days, p, days[p], 1)))

\* runOneIteration on the days dd: the players in map order, each update reading
\* the days the updates before it left; log records the calls made
RECURSIVE NewtonPassFrom(_, _, _, _)
NewtonPassAfter(order, k, dd, log, res) ==
    IF res.error # ""
    THEN [error |-> res.error, days |-> [dd EXCEPT ![order[k]] = res.ds], log |-> log]
    ELSE NewtonPassFrom(order, k + 1, [dd EXCEPT ![order[k]] = res.ds], log)
NewtonPassFrom(order, k, dd, log) ==
    IF k > Len(order) THEN [error |-> "", days |-> dd, log |-> log]
    ELSE NewtonPassAfter(order, k, dd,
                         Append(log, <<"runOneNewtonIteration", order[k]>>),
                         RunOneNewtonIterationOf(dd, order[k]))
RunOneIterationOf(order, dd, log) ==
    NewtonPassFrom(order, 1, dd, Append(log, <<"runOneIteration", "">>))

\* the second loop of iterate: updateUncertainty of every player, which recomputes
\* when the player has a day
RECURSIVE UncertaintiesFrom(_, _, _, _)
UncertaintiesAfter(order, k, dd, log, res) ==
    IF res.error # ""
    THEN [error |-> res.error, days |-> [dd EXCEPT ![order[k]] = res.ds], log |-> log]
    ELSE UncertaintiesFrom(order, k + 1, [dd EXCEPT ![order[k]] = res.ds], log)
UncertaintiesFrom(order, k, dd, log) ==
    IF k > Len(order) THEN [error |-> "", days |-> dd, log |-> log]
    ELSE UncertaintiesAfter(order, k, dd,
                            IF Len(dd[order[k]]) > 0
                            THEN Append(log, <<"updateUncertainty", order[k]>>)
                            ELSE log,
                            UpdateUncertaintyOf(dd, order[k]))

RECURSIVE IterateFrom(_, _, _)
\* the uncertainties refreshed although a pass threw
IterateThenRefresh(count, i, st) ==
    IF st.error # ""
    THEN [UncertaintiesFrom(players, 1, st.days, st.log) EXCEPT !.error = st.error]
    ELSE IF i >= count THEN UncertaintiesFrom(players, 1, st.days, st.log)
    ELSE IterateFrom(count, i + 1, RunOneIterationOf(players, st.days, st.log))
\* iterate(count): count passes, then the uncertainties; a throw ends the call
IterateFrom(count, i, st) ==
    IF st.error # "" THEN st
    ELSE IF i >= count THEN UncertaintiesFrom(players, 1, st.days, st.log)
    ELSE IterateFrom(count, i + 1, RunOneIterationOf(players, st.days, st.log))
\* one pass more than asked for
IterateOnceMore(count) ==
    IterateFrom(count + 1, 0, [error |-> "", days |-> days, log |-> <<>>])
IterateOf(count) == IterateFrom(count, 0, [error |-> "", days |-> days, log |-> <<>>])

\* WholeHistoryRating.runOneIteration
IterationEnded(res) ==
    /\ days' = res.days
    /\ call' = Ended("runOneIteration", "", "", res.error, res.log)
    /\ UNCHANGED <<players, games>>
RunOneIteration == IterationEnded(RunOneIterationOf(players, days, <<>>))

\* WholeHistoryRating.iterate(count)
IterateEnded(count, res) ==
    /\ days' = res.days
    /\ call' = Ended("iterate", "", "", res.error, <<count, res.log>>)
    /\ UNCHANGED <<players, games>>
Iterate(count) == IterateEnded(count, IterateOf(count))

\* iterateToConvergence under config.maxIterations = MaxIterations and the
\* default tolerance: a pass, the score, the test of its change, and in the end
\* the uncertainties; a throw ends the call
ConvergenceTolerance == FDiv(One, FromInt(1000))
\* a loop that never breaks
NeverConverged(currentLikelihood, prevLikelihood) == FALSE
Converged(currentLikelihood, prevLikelihood) ==
    FLt(FAbs(FSub(currentLikelihood, prevLikelihood)), ConvergenceTolerance)
RECURSIVE ConvergeFrom(_, _, _)
ConvergeAfterScore(i, prev, st, current) ==
    IF Converged(current, prev) THEN UncertaintiesFrom(players, 1, st.days, st.log)
    ELSE ConvergeFrom(i + 1, current, st)
ConvergeWithScore(i, prev, log, res) ==
    IF res.error # "" THEN [error |-> res.error, days |-> res.days, log |-> log]
    ELSE ConvergeAfterScore(i, prev,
                            [error |-> "", days |-> res.days,
                             log |-> Append(log, <<"logLikelihood", res.value>>)],
                            res.value)
ConvergeAfterPass(i, prev, st) ==
    IF st.error # "" THEN st
    ELSE ConvergeWithScore(i, prev, st.log, LogLikelihoodOf(LogLikelihoodFrom(1, st.days)))
ConvergeFrom(i, prev, st) ==
    IF i >= MaxIterations THEN UncertaintiesFrom(players, 1, st.days, st.log)
    ELSE ConvergeAfterPass(i, prev, RunOneIterationOf(players, st.days, st.log))
ConvergenceEnded(res) ==
    /\ days' = res.days
    /\ call' = Ended("iterateToConvergence", "", "", res.error, res.log)
    /\ UNCHANGED <<players, games>>
IterateToConvergence ==
    ConvergenceEnded(ConvergeFrom(0, NegInf, [error |-> "", days |-> days, log |-> <<>>]))

\* ratingsForPlayer(name)
RatingsForPlayer(name) ==
    /\ players' = PlayerByName(players, name)
    /\ call' = Ended("ratingsForPlayer", name, "", "", GetRatingHistory(days[name]))
    /\ UNCHANGED <<days, games>>

\* getCurrentRatings(): the last day of every player that has one, in map order,
\* then ratings.sort((a, b) => b.elo - a.elo), a stable sort
Played(p) == Len(days[p]) > 0
CurrentRating(p) ==
    [name |-> p, day |-> days[p][Len(days[p])].day,
     elo |-> Elo(days[p][Len(days[p])]),
     uncertainty |-> days[p][Len(days[p])].uncertainty]
\* the sort by a.elo - b.elo
InsertedAscending(sorted, e) ==
    IF \E k \in 1..Len(sorted) : FGt(FSub(sorted[k].elo, e.elo), Zero)
    THEN IMin({k \in 1..Len(sorted) : FGt(FSub(sorted[k].elo, e.elo), Zero)})
    ELSE Len(sorted) + 1
\* where e goes: before the first entry that the comparator puts after it
InsertedAt(sorted, e) ==
    IF \E k \in 1..Len(sorted) : FGt(FSub(e.elo, sorted[k].elo), Zero)
    THEN IMin({k \in 1..Len(sorted) : FGt(FSub(e.elo, sorted[k].elo), Zero)})
    ELSE Len(sorted) + 1
Inserted(sorted, e, k) ==
    SubSeq(sorted, 1, k - 1) \o <<e>> \o SubSeq(sorted, k, Len(sorted))
RECURSIVE SortedByElo(_, _, _)
SortedByElo(ratings, i, sorted) ==
    IF i > Len(ratings) THEN sorted
    ELSE SortedByElo(ratings, i + 1, Inserted(sorted, ratings[i], InsertedAt(sorted, ratings[i])))
GetCurrentRatings ==
    /\ call' = Ended("getCurrentRatings", "", "", "",
                     SortedByElo([k \in 1..Len(SelectSeq(players, Played)) |->
                                     CurrentRating(SelectSeq(players, Played)[k])],
                                 1, <<>>))
    /\ UNCHANGED <<players, days, games>>

\* getPlayerRatingAtTime(playerName, timePoint)
\* the rating of an unknown player
NoRating == [elo |-> Zero, uncertainty |-> FSqrt(FromInt(5))]
PlayerRatingAtTime(name, h) ==
    IF ~Registered(name) THEN NoRating ELSE GetRatingAtTime(days[name], TimeOf(h))
GetPlayerRatingAtTime(name, h) ==
    /\ call' = Ended("getPlayerRatingAtTime", name, "", "", <<h, PlayerRatingAtTime(name, h)>>)
    /\ UNCHANGED <<players, days, games>>

\* Player.getRatingAtTime and Player.interpolateRating of a registered player,
\* at h half days
RatingRead(op, p, h, rating) ==
    /\ Registered(p)
    /\ call' = Ended(op, p, "", "", <<h, rating>>)
    /\ UNCHANGED <<players, days, games>>

\* a call that the bound on the calls counts, and one that it does not count
Counted == nCalls < MaxCalls /\ nCalls' = nCalls + 1
Uncounted == UNCHANGED nCalls

(***************************************************************************)
(* The registry under any calls: two names, games on any day in any order. *)
(***************************************************************************)
Next ==
    \/ \E b \in Names, w \in Names, win \in Winners, t \in Days :
           Len(games) < MaxGames /\ CreateGame(b, w, win, t, 0) /\ Uncounted
    \/ \E b \in Names, w \in Names : Counted /\ SetupGame(b, w)
    \/ \E p \in Names : Counted /\ RunOneNewtonIteration(p)
    \/ \E p \in Names : Counted /\ UpdateUncertainty(p)
    \/ Counted /\ LogLikelihood
    \/ \E n \in Names : Counted /\ RatingsForPlayer(n)
    \/ Counted /\ GetCurrentRatings
    \/ \E n \in Names, h \in {2, 3} : Counted /\ GetPlayerRatingAtTime(n, h)

Spec == Init /\ [][Next]_vars

(***************************************************************************)
(* The win probabilities, as the tests read them: a game between "a" and   *)
(* "b" on day 1, the elo of either side set, the two getters read.         *)
(***************************************************************************)
NextElo ==
    \/ \E h \in Handicaps :
           Len(games) < MaxGames /\ CreateGame("a", "b", "W", 1, h) /\ Uncounted
    \/ \E p \in Names, v \in Elos : SetEloOf(p, 1, v) /\ Uncounted
    \/ \E gi \in 1..MaxGames : WinProbabilities(gi) /\ Uncounted

SpecElo == Init /\ [][NextElo]_vars

(***************************************************************************)
(* Passes that throw midway: white "b" wins on day 1 under handicap 3200.  *)
(***************************************************************************)
NextPass ==
    \/ Len(games) < MaxWins /\ CreateGame("a", "b", "W", 1, 3200) /\ Uncounted
    \/ Counted /\ RunOneIteration
    \/ \E count \in 0..MaxRuns : Counted /\ Iterate(count)

SpecPass == Init /\ [][NextPass]_vars

(***************************************************************************)
(* Newton updates of players with one rating point or none: white "b" wins *)
(* on day 1 under handicap 3200.                                           *)
(***************************************************************************)
NextStep ==
    \/ Len(games) < MaxWins /\ CreateGame("a", "b", "W", 1, 3200) /\ Uncounted
    \/ \E n \in Names : Len(games) = 0 /\ RatingsForPlayer(n) /\ Uncounted
    \/ \E p \in Names :
           nCalls < MaxRuns /\ nCalls' = nCalls + 1 /\ RunOneNewtonIteration(p)
    \/ \E p \in Names : GetPlayerLogLikelihood(p) /\ Uncounted

SpecStep == Init /\ [][NextStep]_vars

(***************************************************************************)
(* The loop to convergence: games between "a" and "b" without handicap.    *)
(***************************************************************************)
NextConverge ==
    \/ \E win \in {"W", "B"}, t \in Days :
           Len(games) < MaxGames /\ CreateGame("a", "b", win, t, 0) /\ Uncounted
    \/ Counted /\ IterateToConvergence

SpecConverge == Init /\ [][NextConverge]_vars

(***************************************************************************)
(* Games only: createGame and setupGames, self-played games among them.    *)
(***************************************************************************)
GameResults ==
    {NewGame(b, w, win, t, 0) : b \in Names, w \in Names, win \in {"W", "D"}, t \in {1}}
NextGames ==
    \/ \E g \in GameResults :
           /\ Len(games) < MaxTimeGames
           /\ CreateGame(g.black, g.white, g.winner, g.day, g.handicap)
           /\ Uncounted
    \/ \E g1 \in GameResults, g2 \in GameResults :
           Len(games) + 2 <= MaxTimeGames /\ SetupGames(<<g1, g2>>) /\ Uncounted

SpecGames == Init /\ [][NextGames]_vars

(***************************************************************************)
(* Game objects read while one side, both or none are attached.            *)
(***************************************************************************)
NextRead ==
    \/ Len(games) < MaxGames /\ CreateGame("a", "b", "W", 1, 0) /\ Uncounted
    \/ \E p \in Names, v \in {100, 400000} : SetEloOf(p, 1, v) /\ Uncounted
    \/ \E black \in Names, white \in Names, wpd \in 0..1, bpd \in 0..1,
          p \in Names \cup {"c"} :
           /\ black # white
           /\ ReadGameObject([NewGame(black, white, "W", 1, 0)
                                 EXCEPT !.wpd = wpd, !.bpd = bpd], p)
           /\ Uncounted

SpecRead == Init /\ [][NextRead]_vars

(***************************************************************************)
(* Ratings read at any time, between, on and outside the days played.      *)
(***************************************************************************)
NextTime ==
    \/ \E t \in Days :
           Len(games) < MaxTimeGames /\ CreateGame("a", "b", "W", t, 0) /\ Uncounted
    \/ Counted /\ RunOneNewtonIteration("a")
    \/ Counted /\ UpdateUncertainty("a")
    \/ \E h \in HalfDays :
           RatingRead("getRatingAtTime", "a", h, GetRatingAtTime(days["a"], TimeOf(h))) /\ Uncounted
    \/ \E h \in HalfDays :
           RatingRead("interpolateRating", "a", h, InterpolateRating(days["a"], TimeOf(h))) /\ Uncounted

SpecTime == Init /\ [][NextTime]_vars

(***************************************************************************)
(* The Newton updates under large handicaps: white "b" wins every game.    *)
(***************************************************************************)
NextNewton ==
    \/ \E t \in Days, h \in BigHandicaps :
           Len(games) < MaxWins /\ CreateGame("a", "b", "W", t, h) /\ Uncounted
    \/ \E p \in Names : Counted /\ RunOneNewtonIteration(p)

SpecNewton == Init /\ [][NextNewton]_vars

(***************************************************************************)
(* Uncertainties after Newton updates under a large handicap.              *)
(***************************************************************************)
NextCovariance ==
    \/ Len(games) < MaxWins /\ CreateGame("a", "b", "W", 1, 3200) /\ Uncounted
    \/ \E p \in Names : Counted /\ RunOneNewtonIteration(p)
    \/ \E p \in Names : UpdateUncertainty(p) /\ Uncounted

SpecCovariance == Init /\ [][NextCovariance]_vars

(***************************************************************************)
(* The optimizer loop: games between "a" and "b", passes and iterate.      *)
(***************************************************************************)
NextIterate ==
    \/ \E win \in Winners, t \in Days, h \in {0, 200000} :
           Len(games) < MaxGames /\ CreateGame("a", "b", win, t, h) /\ Uncounted
    \/ \E n \in Names : Counted /\ RatingsForPlayer(n)
    \/ Counted /\ RunOneIteration
    \/ \E count \in 0..MaxPasses : Counted /\ Iterate(count)

SpecIterate == Init /\ [][NextIterate]_vars

(***************************************************************************)
(* The properties.                                                         *)
(***************************************************************************)
Last(s) == s[Len(s)]
Range(s) == {s[k] : k \in 1..Len(s)}

Tolerance == FDiv(One, FromInt(10000))
Within(x, y) == FLt(FAbs(FSub(x, y)), Tolerance)

\* the last call read both win probabilities, and neither getter threw
ProbabilitiesRead == call.op = "winProbabilities" /\ call.error = ""
ReadGame == games[call.value[1]]
WhiteRead == call.value[2]
BlackRead == call.value[3]
\* gamma + opponentsAdjustedGamma is a finite number on either side of g
FiniteOdds(g) ==
    /\ IsFinite(FAdd(Gamma(days[g.white][g.wpd]), OpponentsAdjustedGamma(days, g, g.white).value))
    /\ IsFinite(FAdd(Gamma(days[g.black][g.bpd]), OpponentsAdjustedGamma(days, g, g.black).value))
EqualRatings(g) == days[g.white][g.wpd].r = days[g.black][g.bpd].r

C3_SelfPlayedRejected ==
    [][(call'.op \in {"createGame", "setupGame"} /\ call'.who = call'.against)
          => (call'.error = "Invalid game" /\ UNCHANGED <<players, days, games>>)]_vars

C3_Witness ==
    /\ call.op = "createGame"
    /\ call.who = call.against
    /\ call.error = "Invalid game"
    /\ ~Registered(call.who)
    /\ Len(players) = 1

\* C4: a runOneNewtonIteration that fails with UnstableRatingException leaves
\* the r of every rating point of that player as it was.
C4_UnstableCommitsNothing ==
    [][(call'.op = "runOneNewtonIteration" /\ call'.error = "UnstableRatingException")
          => /\ Len(days'[call'.who]) = Len(days[call'.who])
             /\ \A i \in 1..Len(days[call'.who]) :
                    days'[call'.who][i].r = days[call'.who][i].r]_vars

\* the failure is the r > 650 of the multi-day update: no strength is bad
C4_Witness ==
    /\ call.op = "runOneNewtonIteration"
    /\ call.error = "UnstableRatingException"
    /\ Len(days[call.who]) >= 2
    /\ \A k \in 1..Len(games) : games[k].handicap = 3200
    /\ \E i \in 1..Len(days[call.who]) : ~IsZero(days[call.who][i].r)

\* C5 as stated: after a runOneNewtonIteration that returns without error no
\* rating point of that player holds r > 650, whatever the number of its points.
C5_NoRatingAbove650 ==
    (call.op = "runOneNewtonIteration" /\ call.error = "")
        => \A i \in 1..Len(days[call.who]) :
               ~FGt(days[call.who][i].r, FromInt(UnstableR))

\* C6 as stated: the rating points of every player are strictly increasing in
\* day, whatever the order in which the games arrive.
C6_DaysStrictlyIncreasing ==
    \A p \in Names : \A i \in 1..Len(days[p]), j \in 1..Len(days[p]) :
        i < j => days[p][i].day < days[p][j].day

\* C7 as stated: every player with a rating point has exactly one anchor, and
\* the anchor is the point of the smallest day.
C7_AnchorIsEarliest ==
    \A p \in Names : Len(days[p]) > 0 =>
        /\ Cardinality({i \in 1..Len(days[p]) : days[p][i].isFirstDay}) = 1
        /\ \A i \in 1..Len(days[p]) : days[p][i].isFirstDay =>
               \A j \in 1..Len(days[p]) : days[p][i].day <= days[p][j].day

\* the points of player p, as <<player, place>>, that record game k
Recorded(k) ==
    {pi \in {<<p, i>> : p \in Names, i \in 1..Len(games)} :
        /\ pi[2] <= Len(days[pi[1]])
        /\ k \in Range(days[pi[1]][pi[2]].wonGames) \cup Range(days[pi[1]][pi[2]].lostGames)}
Occurrences(s, k) == Cardinality({j \in 1..Len(s) : s[j] = k})

\* C8: every game created has its wpd in the white player's list and its bpd in
\* the black player's list, both of the game's day, and is recorded once, in
\* wonGames or in lostGames, by each of the two and by no other rating point.
C8_GameOnItsTwoPoints ==
    \A k \in 1..Len(games) :
        /\ games[k].wpd \in 1..Len(days[games[k].white])
        /\ games[k].bpd \in 1..Len(days[games[k].black])
        /\ days[games[k].white][games[k].wpd].day = games[k].day
        /\ days[games[k].black][games[k].bpd].day = games[k].day
        /\ Recorded(k) = {<<games[k].white, games[k].wpd>>, <<games[k].black, games[k].bpd>>}
        /\ \A pi \in Recorded(k) :
               Occurrences(days[pi[1]][pi[2]].wonGames, k)
                   + Occurrences(days[pi[1]][pi[2]].lostGames, k) = 1

C8_Witness ==
    /\ call.op = "createGame"
    /\ call.error = ""
    /\ Len(games) = 2
    /\ games[1].winner = "D"
    /\ games[2].winner = "B"
    /\ games[1].day # games[2].day
    /\ games[1].white = games[2].black

\* the days on which p played, and whether the games arrived day after day
DaysPlayed(p) == {games[k].day : k \in {j \in 1..Len(games) : p \in {games[j].white, games[j].black}}}
InDayOrder == \A j \in 1..Len(games), k \in 1..Len(games) : j < k => games[j].day <= games[k].day

\* C9: a game of the day of the player's last rating point goes to that point
\* and makes no new point, a game of any other day appends one point; so when the
\* games arrive in non-decreasing day order a player has one point for each day
\* on which it played.
C9_PointPerDay ==
    /\ [][Len(games') = Len(games) + 1 =>
            \A p \in {Last(games').white, Last(games').black} :
                IF Len(days[p]) > 0 /\ Last(days[p]).day = Last(games').day
                THEN /\ Len(days'[p]) = Len(days[p])
                     /\ Len(games') \in Range(Last(days'[p]).wonGames)
                                            \cup Range(Last(days'[p]).lostGames)
                ELSE /\ days'[p] = Append(days[p], Last(days'[p]))
                     /\ Last(days'[p]).day = Last(games').day]_vars
    /\ [](InDayOrder => \A p \in Names : Len(days[p]) = Cardinality(DaysPlayed(p)))

C9_Witness ==
    /\ Len(games) = 2
    /\ games[1].day = games[2].day
    /\ Len(days["a"]) = 1
    /\ Len(days["a"][1].wonGames) + Len(days["a"][1].lostGames) = 2

\* C10: no call removes a rating point or changes its day, and only
\* runOneNewtonIteration changes an r, that of the player it is called on.
C10_RatingsChangeInNewtonOnly ==
    [][\A p \in Names :
          /\ Len(days'[p]) >= Len(days[p])
          /\ \A i \in 1..Len(days[p]) :
                 /\ days'[p][i].day = days[p][i].day
                 /\ (call'.op # "runOneNewtonIteration" \/ call'.who # p)
                        => days'[p][i].r = days[p][i].r]_vars

C10_Witness ==
    /\ call.op = "updateUncertainty"
    /\ call.error = ""
    /\ \E i \in 1..Len(days[call.who]) :
           /\ ~IsZero(days[call.who][i].r)
           /\ days[call.who][i].uncertainty # FSqrt(FromInt(5))

\* the calls of one pass, and of n passes
ExpectedPass ==
    <<<<"runOneIteration", "">>>>
        \o [k \in 1..Len(players) |-> <<"runOneNewtonIteration", players[k]>>]
RECURSIVE Repeated(_, _)
Repeated(s, n) == IF n = 0 THEN <<>> ELSE s \o Repeated(s, n - 1)
HasDay(entry) == Len(days[entry[2]]) > 0
ExpectedUncertainties ==
    SelectSeq([k \in 1..Len(players) |-> <<"updateUncertainty", players[k]>>], HasDay)

\* C11: an iterate(k) that returns without error has run k passes, each with one
\* Newton update of every registered player, and after the last pass one
\* recomputation of the uncertainty of every player that has a rating point.
C11_IterateRunsItsPasses ==
    (call.op = "iterate" /\ call.error = "")
        => call.value[2] = Repeated(ExpectedPass, call.value[1]) \o ExpectedUncertainties

C11_Witness ==
    /\ call.op = "iterate"
    /\ call.error = ""
    /\ call.value[1] = MaxPasses
    /\ Len(games) = 2
    /\ Len(days["a"]) = 2
    /\ Len(call.value[2]) = 3 * MaxPasses + 2

Reverse(s) == [k \in 1..Len(s) |-> s[Len(s) + 1 - k]]
Ratings(dd) == [p \in Names |-> [i \in 1..Len(dd[p]) |-> dd[p][i].r]]

\* C12 as stated: in a pass every Newton update reads the ratings its opponents
\* had when the pass began, so the ratings after the pass are those of the
\* updates computed one by one from the state before the pass, and those of a
\* pass over the players in the opposite order.
C12_PassReadsSnapshot ==
    [][(call'.op = "runOneIteration" /\ call'.error = "")
          => /\ \A p \in Names : Registered(p) =>
                    Ratings(days')[p] = Ratings([days EXCEPT ![p] = RunOneNewtonIterationOf(days, p).ds])[p]
             /\ Ratings(days') = Ratings(RunOneIterationOf(Reverse(players), days, <<>>).days)]_vars

\* the terms of day i of player p built from the games attached to it and the
\* opponents' ratings held in dd
FreshTerms(dd, p, i, won) ==
    BuildTerms(dd, p, IF won THEN dd[p][i].wonGames ELSE dd[p][i].lostGames,
               won, dd[p][i].isFirstDay).terms
TermCount(pd) == Len(pd.wonTerms) + Len(pd.lostTerms)
GameCount(pd) == Len(pd.wonGames) + Len(pd.lostGames)

\* C13: a runOneNewtonIteration that returns leaves on every rating point of its
\* player the likelihood terms built during that call from the games attached and
\* the opponents' ratings at the time of the call: no term computed by an earlier
\* call survives the clearing of the caches.
C13_NewtonRebuildsTerms ==
    [][(call'.op = "runOneNewtonIteration" /\ call'.error = "")
          => \A i \in 1..Len(days[call'.who]) :
                /\ days'[call'.who][i].wonTerms = FreshTerms(days, call'.who, i, TRUE)
                /\ days'[call'.who][i].lostTerms = FreshTerms(days, call'.who, i, FALSE)]_vars

\* a Newton update of "a" after a second game on the day whose terms an earlier
\* logLikelihood had cached: the cache of "b" still misses that game
C13_Witness ==
    /\ call.op = "runOneNewtonIteration"
    /\ call.who = "a"
    /\ call.error = ""
    /\ Len(days["a"]) = 1
    /\ Len(days["b"]) = 1
    /\ GameCount(days["a"][1]) = 2
    /\ TermCount(days["a"][1]) = 4
    /\ days["b"][1].wonTerms # NoCache
    /\ days["b"][1].lostTerms # NoCache
    /\ TermCount(days["b"][1]) = 3

\* the cached terms of every rating point of player p are those its getters would
\* build now
TermsAreFresh(p) ==
    \A i \in 1..Len(days[p]) :
        /\ days[p][i].wonTerms = FreshTerms(days, p, i, TRUE)
        /\ days[p][i].lostTerms = FreshTerms(days, p, i, FALSE)

\* C14 as stated: the likelihood terms a logLikelihood or an updateUncertainty has
\* just used (the ones its getters returned, which stay in the caches) include
\* every game now attached to each rating point and are built from the opponents'
\* current ratings.
C14_TermsAreCurrent ==
    /\ (call.op = "logLikelihood" /\ call.error = "")
           => \A p \in Names : TermsAreFresh(p)
    /\ (call.op = "updateUncertainty" /\ call.error = "")
           => TermsAreFresh(call.who)

\* the game object, the player and the three results of the last readGame
GameOfRead == call.value[1]
WhiteOfRead == call.value[2]
BlackOfRead == call.value[3]
GammaOfRead == call.value[4]

\* C15: on a game whose black rating point is not attached, white's win
\* probability and white's adjusted opponent strength fail with an error; the
\* same for black when white's point is not attached; the adjusted opponent
\* strength asked for a player who is not in the game fails too; and the read
\* changes no rating point and no list of rating points.
C15_UnresolvedSideFails ==
    [][call'.op = "readGame"
          => /\ GameOfRead'.bpd = 0 => WhiteOfRead'.error # ""
             /\ GameOfRead'.wpd = 0 => BlackOfRead'.error # ""
             /\ (GameOfRead'.bpd = 0 /\ call'.who = GameOfRead'.white) => GammaOfRead'.error # ""
             /\ (GameOfRead'.wpd = 0 /\ call'.who = GameOfRead'.black) => GammaOfRead'.error # ""
             /\ call'.who \notin {GameOfRead'.white, GameOfRead'.black} => GammaOfRead'.error # ""
             /\ days' = days
             /\ players' = players]_vars

\* white's point is attached and holds a rating that was set, black's is not
C15_Witness ==
    /\ call.op = "readGame"
    /\ GameOfRead.wpd = 1
    /\ GameOfRead.bpd = 0
    /\ call.who = GameOfRead.white
    /\ Len(days[GameOfRead.black]) = 1
    /\ ~IsZero(days[GameOfRead.white][1].r)
    /\ WhiteOfRead.error = "Error"
    /\ BlackOfRead.error = "Error"
    /\ GammaOfRead.error = "Error"

\* the last call read a rating of call.who at some time
RatingWasRead == call.op \in {"getRatingAtTime", "interpolateRating"}
TimeRead == TimeOf(call.value[1])
RatingReturned == call.value[2]
Stored(pd) == [elo |-> Elo(pd), uncertainty |-> pd.uncertainty]
Close(rating, other) ==
    /\ Within(rating.elo, other.elo)
    /\ Within(rating.uncertainty, other.uncertainty)
KnownDays(p) == {days[p][i].day : i \in 1..Len(days[p])}

\* C16 as stated: a rating asked through getRatingAtTime at the day of a rating
\* point is the Elo and the uncertainty stored in that point, whichever point of
\* the player it is; and interpolateRating at the day of either point of the pair
\* it interpolates between returns what that point stores.
C16_KnownDayReturnsStored ==
    /\ call.op = "getRatingAtTime"
           => \A i \in 1..Len(days[call.who]) :
                  FromInt(days[call.who][i].day) = TimeRead
                      => RatingReturned = Stored(days[call.who][i])
    /\ (call.op = "interpolateRating" /\ Len(days[call.who]) > 1
           /\ Surrounding(days[call.who], TimeRead) > 0)
           => \A i \in {Surrounding(days[call.who], TimeRead),
                         Surrounding(days[call.who], TimeRead) + 1} :
                  FromInt(days[call.who][i].day) = TimeRead
                      => Close(RatingReturned, Stored(days[call.who][i]))

\* the variance an endpoint pd gives at a distance from its day
VarianceFrom(pd, t) ==
    FAdd(FSquare(pd.uncertainty), FMul(FAbs(FSub(t, FromInt(pd.day))), W2))
Outside(p, t) ==
    \/ \A d \in KnownDays(p) : FLt(t, FromInt(d))
    \/ \A d \in KnownDays(p) : FGt(t, FromInt(d))
Nearest(p, t, i) ==
    \A d \in KnownDays(p) :
        ~FGt(FAbs(FSub(t, FromInt(days[p][i].day))), FAbs(FSub(t, FromInt(d))))

\* C17 as stated: at a time before the first or after the last known day of the
\* player, the rating returned is the Elo of a point of the nearest known day and
\* its variance is that point's variance plus the distance in days times w2.
C17_OutsideUsesNearestEnd ==
    (RatingWasRead /\ Len(days[call.who]) > 0 /\ Outside(call.who, TimeRead))
        => \E i \in 1..Len(days[call.who]) :
               /\ Nearest(call.who, TimeRead, i)
               /\ RatingReturned.elo = Elo(days[call.who][i])
               /\ Within(FSquare(RatingReturned.uncertainty),
                         VarianceFrom(days[call.who][i], TimeRead))

\* d1 < t < d2 for two known days with no known day between them
Adjacent(p, t, d1, d2) ==
    /\ FLt(FromInt(d1), t)
    /\ FLt(t, FromInt(d2))
    /\ \A d \in KnownDays(p) : d <= d1 \/ d >= d2

\* C18 as stated: at a time strictly between two adjacent known days t1 < t2 the
\* rating returned has the mean interpolated linearly between a point of t1 and a
\* point of t2, and the variance (t2-t)(t-t1)/(t2-t1) * w2 +
\* ((t2-t)^2 s1^2 + (t-t1)^2 s2^2)/(t2-t1)^2 of those two points.
C18_BetweenInterpolates ==
    RatingWasRead
        => \A i \in 1..Len(days[call.who]), j \in 1..Len(days[call.who]) :
               Adjacent(call.who, TimeRead, days[call.who][i].day, days[call.who][j].day)
                   => \E k \in 1..Len(days[call.who]), l \in 1..Len(days[call.who]) :
                          /\ days[call.who][k].day = days[call.who][i].day
                          /\ days[call.who][l].day = days[call.who][j].day
                          /\ Close(RatingReturned,
                                   Interpolated(days[call.who][k], days[call.who][l],
                                                FSub(FromInt(days[call.who][l].day), TimeRead),
                                                FSub(TimeRead, FromInt(days[call.who][k].day)),
                                                FromInt(days[call.who][l].day - days[call.who][k].day)))

Positive(x) == IsFinite(x) /\ FGt(x, Zero)

\* C19 as stated: after an updateUncertainty that returns, every rating point of
\* that player has an uncertainty that is finite and greater than 0, and every
\* diagonal entry of its covariance() is greater than 0.
C19_UncertaintyPositive ==
    (call.op = "updateUncertainty" /\ call.error = "" /\ Len(days[call.who]) > 0)
        => \A i \in 1..Len(days[call.who]) :
               /\ Positive(days[call.who][i].uncertainty)
               /\ FGt(Covariance(days[call.who])[i][i], Zero)

\* C20: getCurrentRatings returns one entry for each player that has a rating
\* point and for no other, with the day, the Elo and the uncertainty of that
\* player's last point, and no entry has a lower Elo than the entry after it.
C20_CurrentRatingsSorted ==
    call.op = "getCurrentRatings"
        => /\ \A p \in Names :
                  Cardinality({k \in 1..Len(call.value) : call.value[k].name = p})
                      = (IF Len(days[p]) > 0 THEN 1 ELSE 0)
           /\ \A k \in 1..Len(call.value) :
                  /\ call.value[k].name \in Names
                  /\ call.value[k].day = Last(days[call.value[k].name]).day
                  /\ call.value[k].elo = Elo(Last(days[call.value[k].name]))
                  /\ call.value[k].uncertainty = Last(days[call.value[k].name]).uncertainty
           /\ \A k \in 1..(Len(call.value) - 1) :
                  ~FLt(call.value[k].elo, call.value[k + 1].elo)

\* two players rated, the one registered second ranked first
C20_Witness ==
    /\ call.op = "getCurrentRatings"
    /\ Len(call.value) = 2
    /\ call.value[1].name = players[2]
    /\ FGt(call.value[1].elo, call.value[2].elo)

\* game k is among the won (the lost) games of the point of its day of player p
WonOn(k, p, i) == k \in Range(days[p][i].wonGames)
LostOn(k, p, i) == k \in Range(days[p][i].lostGames)

\* C28: a game with outcome W or B is in wonGames of the winner's rating point and
\* in lostGames of the loser's, and in no other list of the two; a game with
\* outcome D is in lostGames of both rating points and in wonGames of neither.
C28_WonByOneSideOrNone ==
    \A k \in 1..Len(games) :
        /\ games[k].winner = "W"
               => /\ WonOn(k, games[k].white, games[k].wpd)
                  /\ ~LostOn(k, games[k].white, games[k].wpd)
                  /\ LostOn(k, games[k].black, games[k].bpd)
                  /\ ~WonOn(k, games[k].black, games[k].bpd)
        /\ games[k].winner = "B"
               => /\ WonOn(k, games[k].black, games[k].bpd)
                  /\ ~LostOn(k, games[k].black, games[k].bpd)
                  /\ LostOn(k, games[k].white, games[k].wpd)
                  /\ ~WonOn(k, games[k].white, games[k].wpd)
        /\ games[k].winner = "D"
               => /\ LostOn(k, games[k].white, games[k].wpd)
                  /\ LostOn(k, games[k].black, games[k].bpd)
                  /\ ~WonOn(k, games[k].white, games[k].wpd)
                  /\ ~WonOn(k, games[k].black, games[k].bpd)

\* a drawn game and a won game on the same rating points
C28_Witness ==
    /\ Len(games) = 2
    /\ games[1].winner = "D"
    /\ games[2].winner = "B"
    /\ games[1].wpd = games[2].wpd
    /\ games[1].white = games[2].white
    /\ Len(days[games[1].white][games[1].wpd].lostGames) = 2

\* the last createGame gave player p a new rating point
NewPointOf(p) ==
    /\ call'.op = "createGame"
    /\ call'.error = ""
    /\ p \in {call'.who, call'.against}
    /\ Len(days'[p]) = Len(days[p]) + 1
OldPointsKept(p) ==
    \A i \in 1..Len(days[p]) :
        /\ days'[p][i].r = days[p][i].r
        /\ days'[p][i].uncertainty = days[p][i].uncertainty

C27_AdjacentDaysDiffer ==
    \A p \in Names : \A i \in 1..(Len(days[p]) - 1) :
        /\ days[p][i].day # days[p][i + 1].day
        /\ Len(ComputeSigma2(days[p])) = Len(days[p]) - 1
        /\ Positive(ComputeSigma2(days[p])[i])

\* the later game on the earlier day
C27_Witness ==
    /\ Len(games) = 2
    /\ Len(days["a"]) = 2
    /\ days["a"][1].day = 2
    /\ days["a"][2].day = 1
    /\ Len(days["b"]) = 2

\* the player of the call has no rating point before the call
Pointless == Len(days[call'.who]) = 0

\* C29: ratingsForPlayer with a name not yet registered registers it with no
\* rating point, adds no game and returns an empty history; getPlayerRatingAtTime
\* with an unknown name returns {elo 0, uncertainty sqrt(5)} and registers
\* nothing; a player without rating points is left as it is, without error, by a
\* Newton update, an uncertainty refresh and logLikelihood, and has no entry in
\* getCurrentRatings.
C29_UnknownAndEmptyPlayers ==
    [][/\ (call'.op = "ratingsForPlayer" /\ ~Registered(call'.who))
              => /\ players' = Append(players, call'.who)
                 /\ days' = days
                 /\ Len(days'[call'.who]) = 0
                 /\ games' = games
                 /\ call'.value = <<>>
       /\ (call'.op = "getPlayerRatingAtTime" /\ ~Registered(call'.who))
              => /\ call'.value[2] = [elo |-> Zero, uncertainty |-> FSqrt(FromInt(5))]
                 /\ players' = players
                 /\ days' = days
       /\ (call'.op \in {"runOneNewtonIteration", "updateUncertainty"} /\ Pointless)
              => (call'.error = "" /\ days' = days)
       /\ call'.op = "logLikelihood"
              => \A p \in Names : Len(days[p]) = 0 => days'[p] = <<>>
       /\ call'.op = "getCurrentRatings"
              => \A k \in 1..Len(call'.value) : Len(days[call'.value[k].name]) > 0]_vars

\* a Newton update of a player that ratingsForPlayer registered
C29_Witness ==
    /\ call.op = "runOneNewtonIteration"
    /\ call.error = ""
    /\ nCalls = 2
    /\ players = <<call.who>>
    /\ Len(days[call.who]) = 0
    /\ Len(games) = 0

\* the names of the games made, and the games the last call made
NamesIn(gs) == {gs[k].white : k \in 1..Len(gs)} \cup {gs[k].black : k \in 1..Len(gs)}
SelfPlayedIn(results) == {k \in 1..Len(results) : results[k].black = results[k].white}
MadeBy(c) ==
    IF c.op = "createGame" THEN (IF c.who = c.against THEN 0 ELSE 1)
    ELSE IF c.op # "setupGames" THEN 0
    ELSE IF SelfPlayedIn(c.value[1]) = {} THEN Len(c.value[1])
    ELSE IMin(SelfPlayedIn(c.value[1])) - 1

\* C21: the map holds one player for a name, whom every later playerByName of
\* that name finds again with the rating points it had; after createGame and
\* setupGames calls only, the number of players is the number of distinct names
\* of the games made and the number of games is the number of games made, a
\* self-played game making none.
C21_OnePlayerPerName ==
    [][/\ \A i \in 1..Len(players'), j \in 1..Len(players') :
              players'[i] = players'[j] => i = j
       /\ \A i \in 1..Len(players) : players'[i] = players[i]
       /\ \A p \in Names : \A i \in 1..(Len(days[p]) - 1) : days'[p][i] = days[p][i]
       /\ \A p \in Names : Len(days'[p]) >= Len(days[p])
       /\ Len(players') = Cardinality(NamesIn(games'))
       /\ Len(games') = Len(games) + MadeBy(call')]_vars

\* a list of two results after a game, both made, no new player
C21_Witness ==
    /\ call.op = "setupGames"
    /\ call.error = ""
    /\ Len(games) = 3
    /\ Len(players) = 2
    /\ Len(days["a"]) = 1

\* the pass of iterate(count) from the days dd in which a Newton update throws,
\* if there is one: the days before and after it and the place k of the player
\* whose update threw
RECURSIVE FailedPassFrom(_, _, _)
FailedPassIn(count, dd, res) ==
    IF res.error # ""
    THEN [failed |-> TRUE, before |-> dd, after |-> res.days, k |-> Len(res.log) - 1]
    ELSE FailedPassFrom(count - 1, res.days, <<>>)
FailedPassFrom(count, dd, log) ==
    IF count = 0 THEN [failed |-> FALSE, before |-> dd, after |-> dd, k |-> 0]
    ELSE FailedPassIn(count, dd, RunOneIterationOf(players, dd, log))
PassesAsked(c) == IF c.op = "iterate" THEN c.value[1] ELSE 1
CallsLogged(c) == IF c.op = "iterate" THEN c.value[2] ELSE c.value
Uncertainties(dd) == [p \in Names |-> [i \in 1..Len(dd[p]) |-> dd[p][i].uncertainty]]
PartialPass(f, c) ==
    f.failed =>
        /\ c.error # ""
        /\ days' = f.after
        /\ \A j \in 1..Len(players) :
              j # f.k => f.after[players[j]] =
                             NewtonPassFrom(SubSeq(players, 1, f.k - 1), 1, f.before, <<>>).days[players[j]]
        /\ \A j \in 1..Len(players) : j > f.k => days'[players[j]] = f.before[players[j]]
        /\ Ratings(f.after)[players[f.k]] = Ratings(f.before)[players[f.k]]
        /\ Uncertainties(days') = Uncertainties(days)
        /\ \A e \in 1..Len(CallsLogged(c)) : CallsLogged(c)[e][1] # "updateUncertainty"
        /\ Last(CallsLogged(c)) = <<"runOneNewtonIteration", players[f.k]>>

\* C26: when a Newton update throws in a pass of runOneIteration or of iterate,
\* the call ends with the error, the players before the thrower in the pass keep
\* the ratings their updates wrote, the thrower and the players after it keep the
\* ratings they had, and iterate does not refresh any uncertainty.
C26_ErrorLeavesPartialPass ==
    [][(call'.op \in {"runOneIteration", "iterate"})
          => PartialPass(FailedPassFrom(PassesAsked(call'), days, <<>>), call')]_vars

\* iterate ended by the update of the second player, the first player's rating
\* already moved
C26_Witness ==
    /\ call.op = "iterate"
    /\ call.error # ""
    /\ Len(players) = 2
    /\ Last(call.value[2]) = <<"runOneNewtonIteration", players[2]>>

\* day i of player p with the terms built from the ratings held in dd, whether
\* building them throws, and the two derivatives on that day
TermsThrow(dd, p, i) ==
    \/ BuildTerms(dd, p, dd[p][i].wonGames, TRUE, dd[p][i].isFirstDay).error # ""
    \/ BuildTerms(dd, p, dd[p][i].lostGames, FALSE, dd[p][i].isFirstDay).error # ""
FreshDay(dd, p, i) ==
    [dd[p][i] EXCEPT !.wonTerms = FreshTerms(dd, p, i, TRUE),
                     !.lostTerms = FreshTerms(dd, p, i, FALSE)]
NearSingular(pd) == FLt(FAbs(LogLikelihoodSecondDerivative(pd)), SkipBelow)
SteppedFrom(pd) ==
    FSub(pd.r, FDiv(LogLikelihoodDerivative(pd), LogLikelihoodSecondDerivative(pd)))
OneDayStep(pd, newR, error) ==
    /\ error = ""
    /\ newR = IF NearSingular(pd) THEN pd.r ELSE SteppedFrom(pd)

\* C22: a Newton update of a player with one rating point whose terms can be
\* built returns without error; it leaves r as it was when the second derivative
\* is below 1e-10 in magnitude and sets r to r - dlogp / d2logp otherwise. The
\* update of a player without a rating point changes nothing.
C22_OneDayNewtonStep ==
    [][\A p \in Names :
          (call'.op = "runOneNewtonIteration" /\ call'.who = p)
              => /\ Len(days[p]) = 0 => (days' = days /\ call'.error = "")
                 /\ (Len(days[p]) = 1 /\ ~TermsThrow(days, p, 1))
                        => OneDayStep(FreshDay(days, p, 1), days'[p][1].r, call'.error)]_vars

\* the update skipped: a second derivative below 1e-10 that is not zero
C22_Witness ==
    \E p \in Names :
        /\ call.op = "runOneNewtonIteration"
        /\ call.who = p
        /\ call.error = ""
        /\ Len(days[p]) = 1
        /\ NearSingular(days[p][1])
        /\ LogLikelihoodSecondDerivative(days[p][1]) # Zero
        /\ days[p][1].r # Zero

\* H x = g row by row, to the tolerance times the size of the row's terms
RowTimes(h, x, i) == FSum(Array([j \in 1..Len(x) |-> FMul(h[i][j], x[j])]), 1, Zero)
RowSize(h, x, g, i) ==
    FSum(Array([j \in 1..Len(x) |-> FAbs(FMul(h[i][j], x[j]))]), 1, FAdd(One, FAbs(g[i])))
Solves(h, x, g) ==
    \A i \in 1..Len(x) :
        FLt(FAbs(FSub(RowTimes(h, x, i), g[i])), FMul(Tolerance, RowSize(h, x, g, i)))
PivotsNonZero(lu) == \A i \in 1..Len(lu.d) : IsFinite(lu.d[i]) /\ ~IsZero(lu.d[i])
FreshDays(dd, p) == Array([i \in 1..Len(dd[p]) |-> FreshDay(dd, p, i)])
RatingsOf(ds) == Array([i \in 1..Len(ds) |-> ds[i].r])
\* the update of the days ds, which ended with error and left the ratings newR
SolvedBy(r, h, g, x, newR, error) ==
    /\ Solves(h, x, g)
    /\ error = "" => \A i \in 1..Len(r) : newR[i] = FSub(r[i], x[i])
SolvedWith(r, h, g, lu, newR, error) ==
    PivotsNonZero(lu) =>
        SolvedBy(r, h, g, BackwardFrom(Forward(g, lu.a, 2, <<g[1]>>), lu), newR, error)
SolvedFrom(r, h, g, newR, error) ==
    SolvedWith(r, h, g, LuDecompositionTridiagonal(h, Len(r)), newR, error)
NewtonSolves(ds, sigma2, newR, error) ==
    SolvedFrom(RatingsOf(ds), Hessian(ds, sigma2), Gradient(RatingsOf(ds), ds, sigma2),
               newR, error)

\* C24: in a Newton update of a player with two rating points or more whose
\* pivots d[i] are non-zero, the x of the forward and back substitution over
\* luDecompositionTridiagonal satisfies H x = g, and an update that returns has
\* written r[i] - x[i] on every point.
C24_TridiagonalSolve ==
    [][\A p \in Names :
          (/\ call'.op = "runOneNewtonIteration"
           /\ call'.who = p
           /\ Len(days[p]) >= 2
           /\ \A i \in 1..Len(days[p]) : ~TermsThrow(days, p, i))
              => NewtonSolves(FreshDays(days, p), ComputeSigma2(days[p]),
                              RatingsOf(days'[p]), call'.error)]_vars

\* an update over three rating points that returned
C24_Witness ==
    /\ call.op = "runOneNewtonIteration"
    /\ call.error = ""
    /\ Len(days[call.who]) = 3
    /\ \A i \in 1..3 : days[call.who][i].r # Zero

\* the days of a player whose likelihood or prior is not finite
NonFiniteDays(ds) ==
    {i \in 1..Len(ds) :
        \/ ~IsFinite(DayLogLikelihood(ds[i]))
        \/ ~IsFinite(LogPrior(ds, ComputeSigma2(ds), i))}

\* C23 as stated, for logLikelihood: a day whose likelihood or prior is not finite
\* makes the logLikelihood of its player end with an error.
C23_NonFiniteDayReported ==
    [][\A p \in Names :
          (/\ call'.op = "Player.logLikelihood"
           /\ call'.who = p
           /\ \A i \in 1..Len(days[p]) : ~TermsThrow(days, p, i)
           /\ NonFiniteDays(FreshDays(days, p)) # {})
              => call'.error # ""]_vars

\* the scores logged by iterateToConvergence, the change of the k-th of them, and
\* the calls of the passes that computed them
IsScore(entry) == entry[1] = "logLikelihood"
ScoresIn(log) == SelectSeq(log, IsScore)
SmallChange(scores, k) ==
    FLt(FAbs(FSub(scores[k][2], IF k = 1 THEN NegInf ELSE scores[k - 1][2])),
        FDiv(One, FromInt(1000)))
RECURSIVE PassesScored(_, _)
PassesScored(scores, k) ==
    IF k > Len(scores) THEN <<>>
    ELSE ExpectedPass \o <<scores[k]>> \o PassesScored(scores, k + 1)
StoppedRight(scores, log) ==
    /\ Len(scores) \in 1..MaxIterations
    /\ \A k \in 1..(Len(scores) - 1) : ~SmallChange(scores, k)
    /\ ~SmallChange(scores, 1)
    /\ Len(scores) < MaxIterations => SmallChange(scores, Len(scores))
    /\ log = PassesScored(scores, 1) \o ExpectedUncertainties
    /\ Last(scores)[2] = ScoreFrom(days', 1, Zero)
    /\ \A p \in Names :
          Uncertainties(days')[p] = Uncertainties([days' EXCEPT ![p] = UpdateUncertaintyOf(days', p).ds])[p]

\* C25: an iterateToConvergence that returns has run between one and
\* maxIterations passes, each followed by one reading of the total log likelihood;
\* no pass before the last changed the likelihood by less than the tolerance, the
\* first pass never does, the last pass does unless the budget is spent; after
\* the last pass the uncertainty of every player with a rating point is recomputed.
C25_ConvergenceLoop ==
    [][(call'.op = "iterateToConvergence" /\ call'.error = "")
          => StoppedRight(ScoresIn(call'.value), call'.value)]_vars

\* the loop left after two passes, the budget not spent, the ratings moved
C25_Witness ==
    /\ call.op = "iterateToConvergence"
    /\ call.error = ""
    /\ Len(ScoresIn(call.value)) = 2
    /\ MaxIterations > 2
    /\ Len(games) = 2
    /\ \E p \in Names : days[p][1].r # Zero

====
